---------------------------- MODULE Spec2Model ----------------------------
(***************************************************************************)
(* Model of the YIN pitch detector of notefy.cpp: the configuration calls, *)
(* the noise gate, the scratch buffer and the four YIN stages.             *)
(*                                                                         *)
(* Numbers.  Amplitudes and noise thresholds are C floats in the source;   *)
(* here they are integers counting thousandths (0.008f is 8, 1.0f is       *)
(* 1000).  Frequencies are integers in Hz.  Values derived by division     *)
(* (the normalized curve, the refined lag, the pitch) are exact fractions  *)
(* <<n, d>> with d > 0 in lowest terms, so the model follows the real      *)
(* arithmetic of the code and not the rounding of single precision.        *)
(***************************************************************************)
EXTENDS Integers, Sequences, FiniteSets, TLC

\* ---------------------------------------------------------------- constants
MODE_CHROMATIC == 0
MODE_GUITAR == 1
MODE_PIANO == 2

DEFAULT_MIN_FREQ == 25
DEFAULT_MAX_FREQ == 4500

\* thousandths
NOISE_GATE_CHROMATIC == 8
NOISE_GATE_GUITAR == 10
NOISE_GATE_PIANO == 6

NOISE_GATE_ATTACK_FRAMES == 2
NOISE_GATE_RELEASE_FRAMES == 5

\* detect_pitch's "length < 64"
MIN_FRAME_LENGTH == 64

\* The gate counters are C ints that only grow while frames of one kind keep
\* coming; detect is not taken once a counter has reached MaxCounter.
MaxCounter == 6

\* ---------------------------------------------------------------- fractions
Abs(x) == IF x < 0 THEN -x ELSE x

RECURSIVE GCD(_, _)
GCD(a, b) == IF b = 0 THEN a ELSE GCD(b, a % b)

\* n/d in lowest terms with a positive denominator (d # 0)
Frac(n, d) ==
    LET g == GCD(Abs(n), Abs(d))
        s == IF d < 0 THEN -1 ELSE 1
    IN  <<(s * n) \div g, (s * d) \div g>>

FInt(n) == <<n, 1>>

\* The four operations keep every intermediate product as small as the result
\* allows: sums over the least common denominator, products and quotients
\* after cancelling across.
FAdd(a, b) ==
    LET g == GCD(a[2], b[2])
    IN  Frac(a[1] * (b[2] \div g) + b[1] * (a[2] \div g), (a[2] \div g) * b[2])

FSub(a, b) ==
    LET g == GCD(a[2], b[2])
    IN  Frac(a[1] * (b[2] \div g) - b[1] * (a[2] \div g), (a[2] \div g) * b[2])

FMul(a, b) ==
    LET g1 == GCD(Abs(a[1]), b[2])
        g2 == GCD(Abs(b[1]), a[2])
    IN  Frac((a[1] \div g1) * (b[1] \div g2), (a[2] \div g2) * (b[2] \div g1))

\* a / b for b # 0
FDiv(a, b) == FMul(a, IF b[1] < 0 THEN <<-b[2], -b[1]>> ELSE <<b[2], b[1]>>)

RECURSIVE LessByParts(_, _)
\* a < b, by comparing the integer parts and then the remainders
LessByParts(a, b) ==
    LET qa == a[1] \div a[2]
        qb == b[1] \div b[2]
        ra == a[1] % a[2]
        rb == b[1] % b[2]
    IN  IF qa # qb THEN qa < qb
        ELSE IF rb = 0 THEN FALSE
        ELSE IF ra = 0 THEN TRUE
        ELSE LessByParts(<<b[2], rb>>, <<a[2], ra>>)

\* a < b: by cross-multiplication when the products are small
FLess(a, b) ==
    IF Abs(a[1]) < 32768 /\ a[2] < 32768 /\ Abs(b[1]) < 32768 /\ b[2] < 32768
    THEN a[1] * b[2] < b[1] * a[2]
    ELSE LessByParts(a, b)

\* YIN_THRESHOLD 0.10f
YIN_THRESHOLD == <<1, 10>>

\* the -1.0f "no pitch" value
NoPitch == <<-1, 1>>

\* (int)(a / b) for a float quotient: truncation toward zero (b > 0)
TruncDiv(a, b) == IF a >= 0 THEN a \div b ELSE -((-a) \div b)

\* ---------------------------------------------------------------- frames
\* The audio frames handed to detect: a null pointer, a frame that is too
\* short, silence, and square waves of period P and amplitude A thousandths.
Square(N, P, A) == [i \in 0..(N - 1) |-> IF (i % P) < (P \div 2) THEN A ELSE -A]

\* N samples that repeat the samples of cycle
Periodic(N, cycle) == [i \in 0..(N - 1) |-> cycle[(i % Len(cycle)) + 1]]

\* One period of a sine of amplitude A and period P samples, each sample to the
\* nearest thousandth: A = 0.020 and P = 4, A = 0.023 and P = 16.
Sine4 == <<0, 20, 0, -20>>
Sine16 == <<0, 9, 16, 21, 23, 21, 16, 9, 0, -9, -16, -21, -23, -21, -16, -9>>

\* A triangle wave of period P (a multiple of 4) that rises and falls by S
\* thousandths per sample.
Triangle(N, P, S) ==
    [i \in 0..(N - 1) |->
        LET k == i % P
            q == P \div 4
        IN  S * (IF k <= q THEN k ELSE IF k <= 3 * q THEN 2 * q - k ELSE k - 4 * q)]

\* A pulse pair every 15 samples, alternately strong and weak: the frame almost
\* repeats after 15 samples and repeats exactly after 30.
Pulses(N) ==
    [i \in 0..(N - 1) |->
        CASE i % 30 = 0 -> 28
          [] i % 30 = 3 -> -28
          [] i % 30 = 15 -> 21
          [] i % 30 = 18 -> -21
          [] OTHER -> 0]

Frames ==
    [ null   |-> [isNull |-> TRUE,  length |-> 64, data |-> Square(64, 16, 20)],
      short  |-> [isNull |-> FALSE, length |-> 63, data |-> Square(63, 16, 20)],
      zero   |-> [isNull |-> FALSE, length |-> 64, data |-> [i \in 0..63 |-> 0]],
      quiet  |-> [isNull |-> FALSE, length |-> 64, data |-> Square(64, 16, 10)],
      sq16   |-> [isNull |-> FALSE, length |-> 64, data |-> Square(64, 16, 20)],
      sq15   |-> [isNull |-> FALSE, length |-> 66, data |-> Square(66, 15, 20)],
      sine4  |-> [isNull |-> FALSE, length |-> 64, data |-> Periodic(64, Sine4)],
      sine16 |-> [isNull |-> FALSE, length |-> 64, data |-> Periodic(64, Sine16)],
      tri32  |-> [isNull |-> FALSE, length |-> 65, data |-> Triangle(65, 32, 3)],
      pulses |-> [isNull |-> FALSE, length |-> 66, data |-> Pulses(66)] ]

FrameIds == DOMAIN Frames

\* The sine frames, each with its period in samples: a sine frame handed to
\* detect with sampleRate R is a sine of frequency R / period.
SinePeriod == [sine4 |-> 4, sine16 |-> 16]

SampleRates == {0, 8000, 44100}

\* The (frame, sampleRate) pairs handed to detect in Spec: the null, short,
\* silent and square-wave frames at 44100 Hz.
DetectInputs == {"null", "short", "zero", "quiet", "sq16", "sq15"} \X {44100}

\* The (frame, sampleRate) pairs handed to detect in SpecYin: the sines, the
\* triangle wave and the pulses at 44100 Hz, the period-4 sine also at 8000 Hz,
\* and one frame at sampleRate 0.
YinInputs ==
    {<<"sine4", 8000>>, <<"sine4", 44100>>, <<"sine16", 44100>>,
     <<"tri32", 44100>>, <<"pulses", 44100>>, <<"sine16", 0>>}


\* ---------------------------------------------------------------- metrics
RECURSIVE SumSquares(_, _)
SumSquares(buffer, length) ==
    IF length = 0 THEN 0
    ELSE SumSquares(buffer, length - 1) + buffer[length - 1] * buffer[length - 1]

\* calculate_rms returns sqrtf(sum / length).  The model keeps the quantity
\* under the root, sum / length, in millionths: the only use of the rms is the
\* comparison with the threshold, made on the squares in RmsAbove.
calculate_rms(buffer, length) == Frac(SumSquares(buffer, length), length)

\* rms > threshold, for rms >= 0 given by its square
RmsAbove(rmsSquared, threshold) ==
    IF threshold < 0 THEN TRUE
    ELSE FLess(FInt(threshold * threshold), rmsSquared)

RECURSIVE calculate_peak(_, _)
calculate_peak(buffer, length) ==
    IF length = 0 THEN 0
    ELSE LET peak == calculate_peak(buffer, length - 1)
             abs_val == Abs(buffer[length - 1])
         IN  IF abs_val > peak THEN abs_val ELSE peak

\* ---------------------------------------------------------------- YIN 1, 2
RECURSIVE DiffSum(_, _, _)
\* sum over i in [0, n) of (buffer[i] - buffer[i + tau])^2
DiffSum(buffer, tau, n) ==
    IF n = 0 THEN 0
    ELSE LET delta == buffer[n - 1] - buffer[n - 1 + tau]
         IN  DiffSum(buffer, tau, n - 1) + delta * delta

\* The contents of yinBuffer[0 .. halfLen) after the call.
yin_difference(buffer, bufferLength) ==
    LET halfLen == bufferLength \div 2
    IN  [tau \in 0..(halfLen - 1) |->
            IF tau = 0 THEN 0 ELSE DiffSum(buffer, tau, halfLen)]

RECURSIVE RunningSum(_, _)
\* runningSum after the loop body for tau has added yinBuffer[tau]
RunningSum(yinBuffer, tau) ==
    IF tau = 0 THEN 0 ELSE RunningSum(yinBuffer, tau - 1) + yinBuffer[tau]

\* The contents of yinBuffer[0 .. halfLen) after the call, as fractions.
yin_cumulative_mean_normalized_difference(yinBuffer, bufferLength) ==
    LET halfLen == bufferLength \div 2
    IN  [tau \in 0..(halfLen - 1) |->
            IF tau = 0 THEN FInt(1)
            ELSE LET runningSum == RunningSum(yinBuffer, tau)
                 IN  IF runningSum > 0
                     THEN Frac(yinBuffer[tau] * tau, runningSum)
                     ELSE FInt(1)]

\* What each frame of Frames yields, computed once.
FrameRms == [f \in FrameIds |-> calculate_rms(Frames[f].data, Frames[f].length)]
FramePeak == [f \in FrameIds |-> calculate_peak(Frames[f].data, Frames[f].length)]
FrameCurve ==
    [f \in FrameIds |->
        yin_cumulative_mean_normalized_difference(
            yin_difference(Frames[f].data, Frames[f].length), Frames[f].length)]

\* ---------------------------------------------------------------- state
VARIABLES
    g_yinBuffer,        \* [isNull, mem]: the pointer and, when not null, the block
    g_yinBufferSize,
    g_gateOpenCounter,
    g_gateCloseCounter,
    g_gateIsOpen,
    g_lastValidPitch,
    g_currentMode,
    g_minFrequency,
    g_maxFrequency,
    g_noiseThreshold,
    call,               \* the last call made and its arguments
    ret,                \* what the last call returned, if it was a detect call
    outConfidence,      \* *outConfidence, if it was detect_pitch_with_confidence
    local,              \* the locals of that detect call at its return
    prevSignal,         \* history: the last accepted frame was signal-present,
                        \*   and neither set_tuning_mode nor cleanup came after it
    silRun,             \* history: how many accepted frames in a row had no signal
                        \*   since the last set_tuning_mode or cleanup (up to 5)
    zeroRun,            \* history: how many of the last calls in a row were detect
                        \*   calls on an accepted all-zero frame (up to 5)
    prevGateOpen,       \* history: g_gateIsOpen before the last call
    prevLastPitch,      \* history: g_lastValidPitch before the last call
    prevMalloc          \* history: what malloc answered in the call before the
                        \*   last call, if that was a detect call that called it

config == <<g_currentMode, g_minFrequency, g_maxFrequency, g_noiseThreshold>>
gate == <<g_gateOpenCounter, g_gateCloseCounter, g_gateIsOpen, g_lastValidPitch>>
scratch == <<g_yinBuffer, g_yinBufferSize>>
session == <<config, gate, scratch>>
history == <<prevSignal, silRun, zeroRun, prevGateOpen, prevLastPitch, prevMalloc>>
vars == <<session, call, ret, outConfidence, local, history>>

\* a block that malloc returned and nothing has written yet
Uninit == <<0, 0>>
NullBuffer == [isNull |-> TRUE, mem |-> <<>>]

NoCall ==
    [op |-> "none", mode |-> 0, minFreq |-> 0, maxFreq |-> 0, threshold |-> 0,
     frame |-> "zero", sampleRate |-> 0]

NoLocal ==
    [accepted |-> FALSE, signal_present |-> FALSE, gateOpen |-> FALSE,
     malloc |-> "none", yin |-> FALSE, tau |-> -1, pitchHz |-> NoPitch]

Init ==
    /\ g_yinBuffer = NullBuffer
    /\ g_yinBufferSize = 0
    /\ g_gateOpenCounter = 0
    /\ g_gateCloseCounter = 0
    /\ g_gateIsOpen = FALSE
    /\ g_lastValidPitch = NoPitch
    /\ g_currentMode = MODE_CHROMATIC
    /\ g_minFrequency = DEFAULT_MIN_FREQ
    /\ g_maxFrequency = DEFAULT_MAX_FREQ
    /\ g_noiseThreshold = NOISE_GATE_CHROMATIC
    /\ call = NoCall
    /\ ret = NoPitch
    /\ outConfidence = FInt(0)
    /\ local = NoLocal
    /\ prevSignal = FALSE
    /\ silRun = 0
    /\ zeroRun = 0
    /\ prevGateOpen = FALSE
    /\ prevLastPitch = NoPitch
    /\ prevMalloc = "none"

\* ---------------------------------------------------------------- noise gate
\* GateAfter without "g_gateOpenCounter = 0" in the else branch
GateAfterKeepsOpenCounter(rms, peak) ==
    LET signal_present ==
            RmsAbove(rms, g_noiseThreshold) /\ peak > g_noiseThreshold * 2
    IN  IF signal_present
        THEN [signal_present |-> TRUE,
              close |-> 0,
              open |-> g_gateOpenCounter + 1,
              isOpen |-> IF g_gateOpenCounter + 1 >= NOISE_GATE_ATTACK_FRAMES
                         THEN TRUE ELSE g_gateIsOpen,
              last |-> g_lastValidPitch]
        ELSE [signal_present |-> FALSE,
              open |-> g_gateOpenCounter,
              close |-> g_gateCloseCounter + 1,
              isOpen |-> IF g_gateCloseCounter + 1 >= NOISE_GATE_RELEASE_FRAMES
                         THEN FALSE ELSE g_gateIsOpen,
              last |-> IF g_gateCloseCounter + 1 >= NOISE_GATE_RELEASE_FRAMES
                       THEN NoPitch ELSE g_lastValidPitch]

\* GateAfter with "g_gateCloseCounter > NOISE_GATE_RELEASE_FRAMES"
GateAfterLateRelease(rms, peak) ==
    LET signal_present ==
            RmsAbove(rms, g_noiseThreshold) /\ peak > g_noiseThreshold * 2
    IN  IF signal_present
        THEN [signal_present |-> TRUE,
              close |-> 0,
              open |-> g_gateOpenCounter + 1,
              isOpen |-> IF g_gateOpenCounter + 1 >= NOISE_GATE_ATTACK_FRAMES
                         THEN TRUE ELSE g_gateIsOpen,
              last |-> g_lastValidPitch]
        ELSE [signal_present |-> FALSE,
              open |-> 0,
              close |-> g_gateCloseCounter + 1,
              isOpen |-> IF g_gateCloseCounter + 1 > NOISE_GATE_RELEASE_FRAMES
                         THEN FALSE ELSE g_gateIsOpen,
              last |-> IF g_gateCloseCounter + 1 > NOISE_GATE_RELEASE_FRAMES
                       THEN NoPitch ELSE g_lastValidPitch]

\* GateAfter without "g_gateIsOpen = false" in the else branch
GateAfterNeverCloses(rms, peak) ==
    LET signal_present ==
            RmsAbove(rms, g_noiseThreshold) /\ peak > g_noiseThreshold * 2
    IN  IF signal_present
        THEN [signal_present |-> TRUE,
              close |-> 0,
              open |-> g_gateOpenCounter + 1,
              isOpen |-> IF g_gateOpenCounter + 1 >= NOISE_GATE_ATTACK_FRAMES
                         THEN TRUE ELSE g_gateIsOpen,
              last |-> g_lastValidPitch]
        ELSE [signal_present |-> FALSE,
              open |-> 0,
              close |-> g_gateCloseCounter + 1,
              isOpen |-> g_gateIsOpen,
              last |-> IF g_gateCloseCounter + 1 >= NOISE_GATE_RELEASE_FRAMES
                       THEN NoPitch ELSE g_lastValidPitch]

\* GateAfter without "g_lastValidPitch = -1.0f" in the else branch
GateAfterKeepsLastPitch(rms, peak) ==
    LET signal_present ==
            RmsAbove(rms, g_noiseThreshold) /\ peak > g_noiseThreshold * 2
    IN  IF signal_present
        THEN [signal_present |-> TRUE,
              close |-> 0,
              open |-> g_gateOpenCounter + 1,
              isOpen |-> IF g_gateOpenCounter + 1 >= NOISE_GATE_ATTACK_FRAMES
                         THEN TRUE ELSE g_gateIsOpen,
              last |-> g_lastValidPitch]
        ELSE [signal_present |-> FALSE,
              open |-> 0,
              close |-> g_gateCloseCounter + 1,
              isOpen |-> IF g_gateCloseCounter + 1 >= NOISE_GATE_RELEASE_FRAMES
                         THEN FALSE ELSE g_gateIsOpen,
              last |-> g_lastValidPitch]

\* The gate globals after the call.
GateAfter(rms, peak) ==
    LET above_threshold == RmsAbove(rms, g_noiseThreshold)
        has_signal == peak > g_noiseThreshold * 2
        signal_present == above_threshold /\ has_signal
    IN  IF signal_present
        THEN [signal_present |-> TRUE,
              close |-> 0,
              open |-> g_gateOpenCounter + 1,
              isOpen |-> IF g_gateOpenCounter + 1 >= NOISE_GATE_ATTACK_FRAMES
                         THEN TRUE ELSE g_gateIsOpen,
              last |-> g_lastValidPitch]
        ELSE [signal_present |-> FALSE,
              open |-> 0,
              close |-> g_gateCloseCounter + 1,
              isOpen |-> IF g_gateCloseCounter + 1 >= NOISE_GATE_RELEASE_FRAMES
                         THEN FALSE ELSE g_gateIsOpen,
              last |-> IF g_gateCloseCounter + 1 >= NOISE_GATE_RELEASE_FRAMES
                       THEN NoPitch ELSE g_lastValidPitch]

\* noise_gate_check with "return signal_present"
noise_gate_check_ReturnsSignal(rms, peak) ==
    LET after == GateAfter(rms, peak)
    IN  [after |-> after, result |-> after.signal_present]

\* .result is the value returned: g_gateIsOpen after the update.
noise_gate_check(rms, peak) ==
    LET after == GateAfter(rms, peak)
    IN  [after |-> after, result |-> after.isOpen]

\* ---------------------------------------------------------------- YIN 3, 4
RECURSIVE FirstBelow(_, _, _)
\* the for loop: the first tau in [tau, maxTau) with yinBuffer[tau] < YIN_THRESHOLD
FirstBelow(yinBuffer, tau, maxTau) ==
    IF tau >= maxTau THEN -1
    ELSE IF FLess(yinBuffer[tau], YIN_THRESHOLD) THEN tau
    ELSE FirstBelow(yinBuffer, tau + 1, maxTau)

\* WalkDown without the inner while loop
WalkDownNone(yinBuffer, tau, maxTau) == tau

\* the inner while loop
RECURSIVE WalkDown(_, _, _)
WalkDown(yinBuffer, tau, maxTau) ==
    IF tau + 1 < maxTau /\ FLess(yinBuffer[tau + 1], yinBuffer[tau])
    THEN WalkDown(yinBuffer, tau + 1, maxTau)
    ELSE tau

\* MinTau with the quotient rounded to the nearest integer
MinTauRounded(sampleRate) ==
    LET minTau == (2 * sampleRate + g_maxFrequency) \div (2 * g_maxFrequency)
    IN  IF minTau < 2 THEN 2 ELSE minTau

MinTau(sampleRate) ==
    LET minTau == TruncDiv(sampleRate, g_maxFrequency)
    IN  IF minTau < 2 THEN 2 ELSE minTau

\* MaxTau clamped at halfLen instead of halfLen - 1
MaxTauNoMargin(sampleRate, halfLen) ==
    LET maxTau == TruncDiv(sampleRate, g_minFrequency)
    IN  IF maxTau > halfLen THEN halfLen ELSE maxTau

MaxTau(sampleRate, halfLen) ==
    LET maxTau == TruncDiv(sampleRate, g_minFrequency)
    IN  IF maxTau > halfLen - 1 THEN halfLen - 1 ELSE maxTau

\* [tau |-> the value returned, confidence |-> *confidence]
yin_absolute_threshold(yinBuffer, bufferLength, sampleRate) ==
    LET halfLen == bufferLength \div 2
        minTau == MinTau(sampleRate)
        maxTau == MaxTau(sampleRate, halfLen)
        first == FirstBelow(yinBuffer, minTau, maxTau)
        tau == IF first = -1 THEN -1 ELSE WalkDown(yinBuffer, first, maxTau)
        found == tau # -1 /\ FLess(yinBuffer[tau], YIN_THRESHOLD)
        bestTau == IF found THEN tau ELSE -1
        bestValue == IF found THEN yinBuffer[tau] ELSE YIN_THRESHOLD
    IN  [tau |-> bestTau,
         confidence |-> IF bestTau # -1 THEN FSub(FInt(1), bestValue) ELSE FInt(0)]

\* fabsf(denominator) < 1e-9f
NearZero(denominator) ==
    LET n == Abs(denominator[1])
    IN  n = 0 \/ (n <= 2 /\ n * 1000000000 < denominator[2])

yin_parabolic_interpolation(yinBuffer, tau, bufferLength) ==
    LET halfLen == bufferLength \div 2
    IN  IF tau < 1 \/ tau >= halfLen - 1 THEN FInt(tau)
        ELSE LET s0 == yinBuffer[tau - 1]
                 s1 == yinBuffer[tau]
                 s2 == yinBuffer[tau + 1]
                 denominator ==
                     FMul(FInt(2), FSub(FSub(FMul(FInt(2), s1), s2), s0))
             IN  IF NearZero(denominator) THEN FInt(tau)
                 ELSE LET adjustment == FDiv(FSub(s2, s0), denominator)
                          clamped ==
                              IF FLess(adjustment, FInt(-1)) THEN FInt(-1)
                              ELSE IF FLess(FInt(1), adjustment) THEN FInt(1)
                              ELSE adjustment
                      IN  FAdd(FInt(tau), clamped)

\* ---------------------------------------------------------------- scratch
\* ensure_yin_buffer that tests only the recorded size, and so does not call
\* malloc again for a frame of the size whose allocation failed
ensure_yin_buffer_SizeOnly(halfLen, mallocOk) ==
    IF g_yinBufferSize < halfLen
    THEN [ok |-> mallocOk,
          malloc |-> IF mallocOk THEN "ok" ELSE "failed",
          buffer |-> IF mallocOk
                     THEN [isNull |-> FALSE,
                           mem |-> [i \in 0..(halfLen - 1) |-> Uninit]]
                     ELSE NullBuffer,
          size |-> halfLen]
    ELSE [ok |-> ~g_yinBuffer.isNull, malloc |-> "none",
          buffer |-> g_yinBuffer, size |-> g_yinBufferSize]

\* mallocOk: whether malloc, if it is called, returns a block.
\* [ok |-> the value returned, buffer, size |-> the globals after the call]
ensure_yin_buffer(halfLen, mallocOk) ==
    IF g_yinBuffer.isNull \/ g_yinBufferSize < halfLen
    THEN [ok |-> mallocOk,
          malloc |-> IF mallocOk THEN "ok" ELSE "failed",
          buffer |-> IF mallocOk
                     THEN [isNull |-> FALSE,
                           mem |-> [i \in 0..(halfLen - 1) |-> Uninit]]
                     ELSE NullBuffer,
          size |-> halfLen]
    ELSE [ok |-> TRUE, malloc |-> "none",
          buffer |-> g_yinBuffer, size |-> g_yinBufferSize]

\* the block after the stages have written curve into mem[0 .. halfLen)
Written(mem, curve) ==
    [i \in DOMAIN mem |-> IF i \in DOMAIN curve THEN curve[i] ELSE mem[i]]

\* ---------------------------------------------------------------- detect
\* What a detect call that returns at its first check leaves behind.
Rejected ==
    [ret |-> NoPitch, conf |-> FInt(0),
     open |-> g_gateOpenCounter, close |-> g_gateCloseCounter,
     isOpen |-> g_gateIsOpen, last |-> g_lastValidPitch,
     buffer |-> g_yinBuffer, size |-> g_yinBufferSize,
     local |-> NoLocal]

\* RejectFrame without the length check
RejectFrameNullOnly(audioData, length) == audioData.isNull

\* audioData == nullptr || length < 64
RejectFrame(audioData, length) == audioData.isNull \/ length < MIN_FRAME_LENGTH

\* InRange without "pitchHz > g_maxFrequency"
InRangeNoUpper(pitchHz) == ~FLess(pitchHz, FInt(g_minFrequency))

\* the negation of the final "pitchHz < g_minFrequency || pitchHz > g_maxFrequency"
InRange(pitchHz) ==
    ~(FLess(pitchHz, FInt(g_minFrequency)) \/ FLess(FInt(g_maxFrequency), pitchHz))

\* detect_pitch(audioData, length, sampleRate) on frame f of Frames: the value
\* returned, the globals after the call and the locals at the return.
detect_pitch(f, sampleRate, mallocOk) ==
    LET audioData == Frames[f]
        length == audioData.length
    IN  IF RejectFrame(audioData, length) THEN Rejected
        ELSE
        LET check == noise_gate_check(FrameRms[f], FramePeak[f])
            g == check.after
            gated == [Rejected EXCEPT
                        !.open = g.open, !.close = g.close,
                        !.isOpen = g.isOpen, !.last = g.last,
                        !.local = [NoLocal EXCEPT
                                     !.accepted = TRUE,
                                     !.signal_present = g.signal_present,
                                     !.gateOpen = check.result]]
        IN  IF ~check.result THEN gated
            ELSE
            LET halfLen == length \div 2
                e == ensure_yin_buffer(halfLen, mallocOk)
                ensured == [gated EXCEPT
                              !.buffer = e.buffer, !.size = e.size,
                              !.local.malloc = e.malloc]
            IN  IF ~e.ok THEN ensured
                ELSE
                LET mem == Written(e.buffer.mem, FrameCurve[f])
                    t == yin_absolute_threshold(mem, length, sampleRate)
                    searched == [ensured EXCEPT
                                   !.buffer.mem = mem,
                                   !.local.yin = TRUE,
                                   !.local.tau = t.tau]
                IN  IF t.tau = -1 THEN searched
                    ELSE
                    LET betterTau == yin_parabolic_interpolation(mem, t.tau, length)
                        pitchHz == FDiv(FInt(sampleRate), betterTau)
                        converted == [searched EXCEPT !.local.pitchHz = pitchHz]
                    IN  IF ~InRange(pitchHz) THEN converted
                        ELSE [converted EXCEPT !.last = pitchHz, !.ret = pitchHz]

\* detect_pitch_with_confidence without "g_lastValidPitch = pitchHz"
detect_pitch_with_confidence_NoLast(f, sampleRate, mallocOk) ==
    LET d == detect_pitch(f, sampleRate, mallocOk)
    IN  IF d.ret = NoPitch THEN d
        ELSE [d EXCEPT !.last = g_lastValidPitch,
                       !.conf = FSub(FInt(1), FrameCurve[f][d.local.tau])]

\* detect_pitch_with_confidence that writes *outConfidence as soon as the
\* threshold search has a candidate, before the range check
detect_pitch_with_confidence_Early(f, sampleRate, mallocOk) ==
    LET d == detect_pitch(f, sampleRate, mallocOk)
    IN  IF d.local.tau = -1 THEN d
        ELSE [d EXCEPT !.conf = FSub(FInt(1), FrameCurve[f][d.local.tau])]

\* detect_pitch_with_confidence(audioData, length, sampleRate, outConfidence)
\* with a non-null outConfidence; .conf is *outConfidence after the call.
detect_pitch_with_confidence(f, sampleRate, mallocOk) ==
    LET audioData == Frames[f]
        length == audioData.length
    IN  IF RejectFrame(audioData, length) THEN Rejected
        ELSE
        LET check == noise_gate_check(FrameRms[f], FramePeak[f])
            g == check.after
            gated == [Rejected EXCEPT
                        !.open = g.open, !.close = g.close,
                        !.isOpen = g.isOpen, !.last = g.last,
                        !.local = [NoLocal EXCEPT
                                     !.accepted = TRUE,
                                     !.signal_present = g.signal_present,
                                     !.gateOpen = check.result]]
        IN  IF ~check.result THEN gated
            ELSE
            LET halfLen == length \div 2
                e == ensure_yin_buffer(halfLen, mallocOk)
                ensured == [gated EXCEPT
                              !.buffer = e.buffer, !.size = e.size,
                              !.local.malloc = e.malloc]
            IN  IF ~e.ok THEN ensured
                ELSE
                LET mem == Written(e.buffer.mem, FrameCurve[f])
                    t == yin_absolute_threshold(mem, length, sampleRate)
                    searched == [ensured EXCEPT
                                   !.buffer.mem = mem,
                                   !.local.yin = TRUE,
                                   !.local.tau = t.tau]
                IN  IF t.tau = -1 THEN searched
                    ELSE
                    LET betterTau == yin_parabolic_interpolation(mem, t.tau, length)
                        pitchHz == FDiv(FInt(sampleRate), betterTau)
                        converted == [searched EXCEPT !.local.pitchHz = pitchHz]
                    IN  IF ~InRange(pitchHz) THEN converted
                        ELSE [converted EXCEPT
                                !.conf = t.confidence,
                                !.last = pitchHz, !.ret = pitchHz]

\* ---------------------------------------------------------------- inputs
Modes == {MODE_CHROMATIC, MODE_GUITAR, MODE_PIANO, 3}
Ranges == {<<10, 5>>, <<100, 100>>, <<0, 100>>, <<20, 30>>, <<2000, 2800>>}
Thresholds == {-1000, 0, 500, 1000}

\* the frames of Frames whose samples are all zero
SilentFrameIds ==
    {f \in FrameIds : \A i \in DOMAIN Frames[f].data : Frames[f].data[i] = 0}

IsSilent(f) == f \in SilentFrameIds

Min(a, b) == IF a < b THEN a ELSE b

\* ---------------------------------------------------------------- actions
\* what every call other than detect leaves in the result and history variables
NoResult ==
    /\ ret' = NoPitch
    /\ outConfidence' = FInt(0)
    /\ local' = NoLocal
    /\ zeroRun' = 0
    /\ prevGateOpen' = g_gateIsOpen
    /\ prevLastPitch' = g_lastValidPitch
    /\ prevMalloc' = local.malloc

\* set_tuning_mode that also puts the frequency range back to its defaults
set_tuning_mode_ResetsRange(mode) ==
    /\ g_currentMode' = mode
    /\ g_noiseThreshold' =
          CASE mode = MODE_GUITAR -> NOISE_GATE_GUITAR
            [] mode = MODE_PIANO -> NOISE_GATE_PIANO
            [] OTHER -> NOISE_GATE_CHROMATIC
    /\ g_minFrequency' = DEFAULT_MIN_FREQ
    /\ g_maxFrequency' = DEFAULT_MAX_FREQ
    /\ g_gateOpenCounter' = 0
    /\ g_gateCloseCounter' = 0
    /\ g_gateIsOpen' = FALSE
    /\ g_lastValidPitch' = NoPitch
    /\ call' = [NoCall EXCEPT !.op = "set_tuning_mode", !.mode = mode]
    /\ prevSignal' = FALSE
    /\ silRun' = 0
    /\ NoResult
    /\ UNCHANGED scratch

set_tuning_mode(mode) ==
    /\ g_currentMode' = mode
    /\ g_noiseThreshold' =
          CASE mode = MODE_GUITAR -> NOISE_GATE_GUITAR
            [] mode = MODE_PIANO -> NOISE_GATE_PIANO
            [] OTHER -> NOISE_GATE_CHROMATIC
    /\ g_gateOpenCounter' = 0
    /\ g_gateCloseCounter' = 0
    /\ g_gateIsOpen' = FALSE
    /\ g_lastValidPitch' = NoPitch
    /\ call' = [NoCall EXCEPT !.op = "set_tuning_mode", !.mode = mode]
    /\ prevSignal' = FALSE
    /\ silRun' = 0
    /\ NoResult
    /\ UNCHANGED <<g_minFrequency, g_maxFrequency, scratch>>

\* set_frequency_range without "minFreq < maxFreq"
set_frequency_range_NoOrder(minFreq, maxFreq) ==
    /\ IF minFreq > 0
       THEN /\ g_minFrequency' = minFreq
            /\ g_maxFrequency' = maxFreq
       ELSE UNCHANGED <<g_minFrequency, g_maxFrequency>>
    /\ call' = [NoCall EXCEPT !.op = "set_frequency_range",
                              !.minFreq = minFreq, !.maxFreq = maxFreq]
    /\ NoResult
    /\ UNCHANGED <<g_currentMode, g_noiseThreshold, gate, scratch, prevSignal, silRun>>

set_frequency_range(minFreq, maxFreq) ==
    /\ IF minFreq > 0 /\ minFreq < maxFreq
       THEN /\ g_minFrequency' = minFreq
            /\ g_maxFrequency' = maxFreq
       ELSE UNCHANGED <<g_minFrequency, g_maxFrequency>>
    /\ call' = [NoCall EXCEPT !.op = "set_frequency_range",
                              !.minFreq = minFreq, !.maxFreq = maxFreq]
    /\ NoResult
    /\ UNCHANGED <<g_currentMode, g_noiseThreshold, gate, scratch, prevSignal, silRun>>

reset_frequency_range ==
    /\ g_minFrequency' = DEFAULT_MIN_FREQ
    /\ g_maxFrequency' = DEFAULT_MAX_FREQ
    /\ call' = [NoCall EXCEPT !.op = "reset_frequency_range"]
    /\ NoResult
    /\ UNCHANGED <<g_currentMode, g_noiseThreshold, gate, scratch, prevSignal, silRun>>

\* set_noise_threshold with "threshold <= 1.0f"
set_noise_threshold_Inclusive(threshold) ==
    /\ IF threshold > 0 /\ threshold <= 1000
       THEN g_noiseThreshold' = threshold
       ELSE UNCHANGED g_noiseThreshold
    /\ call' = [NoCall EXCEPT !.op = "set_noise_threshold", !.threshold = threshold]
    /\ NoResult
    /\ UNCHANGED <<g_currentMode, g_minFrequency, g_maxFrequency, gate, scratch,
                   prevSignal, silRun>>

set_noise_threshold(threshold) ==
    /\ IF threshold > 0 /\ threshold < 1000
       THEN g_noiseThreshold' = threshold
       ELSE UNCHANGED g_noiseThreshold
    /\ call' = [NoCall EXCEPT !.op = "set_noise_threshold", !.threshold = threshold]
    /\ NoResult
    /\ UNCHANGED <<g_currentMode, g_minFrequency, g_maxFrequency, gate, scratch,
                   prevSignal, silRun>>

\* The globals, the results and the history after a detect call with outcome d.
Detected(op, f, sampleRate, d) ==
    /\ d.open <= MaxCounter
    /\ d.close <= MaxCounter
    /\ g_gateOpenCounter' = d.open
    /\ g_gateCloseCounter' = d.close
    /\ g_gateIsOpen' = d.isOpen
    /\ g_lastValidPitch' = d.last
    /\ g_yinBuffer' = d.buffer
    /\ g_yinBufferSize' = d.size
    /\ ret' = d.ret
    /\ outConfidence' = d.conf
    /\ local' = d.local
    /\ call' = [NoCall EXCEPT !.op = op, !.frame = f, !.sampleRate = sampleRate]
    /\ prevSignal' = IF d.local.accepted THEN d.local.signal_present ELSE prevSignal
    /\ silRun' = IF ~d.local.accepted THEN silRun
                 ELSE IF d.local.signal_present THEN 0
                 ELSE Min(silRun + 1, NOISE_GATE_RELEASE_FRAMES)
    /\ zeroRun' = IF d.local.accepted /\ IsSilent(f)
                  THEN Min(zeroRun + 1, NOISE_GATE_RELEASE_FRAMES)
                  ELSE 0
    /\ prevGateOpen' = g_gateIsOpen
    /\ prevLastPitch' = g_lastValidPitch
    /\ prevMalloc' = local.malloc
    /\ UNCHANGED config

DetectPitch(f, sampleRate, mallocOk) ==
    Detected("detect_pitch", f, sampleRate, detect_pitch(f, sampleRate, mallocOk))

DetectPitchWithConfidence(f, sampleRate, mallocOk) ==
    Detected("detect_pitch_with_confidence", f, sampleRate,
             detect_pitch_with_confidence(f, sampleRate, mallocOk))

is_gate_open == g_gateIsOpen

\* What malloc may answer in a detect call on frame f: it is called, and so may
\* fail, only when the frame passes the first check and the gate, and the buffer
\* is null or too small.
MallocOutcomes(f) ==
    IF /\ ~RejectFrame(Frames[f], Frames[f].length)
       /\ noise_gate_check(FrameRms[f], FramePeak[f]).result
       /\ (g_yinBuffer.isNull \/ g_yinBufferSize < Frames[f].length \div 2)
    THEN BOOLEAN
    ELSE {TRUE}

\* cleanup_pitch_detector without the four assignments to the configuration
cleanup_pitch_detector_KeepsConfig ==
    /\ IF ~g_yinBuffer.isNull
       THEN /\ g_yinBuffer' = NullBuffer
            /\ g_yinBufferSize' = 0
       ELSE UNCHANGED <<g_yinBuffer, g_yinBufferSize>>
    /\ g_gateOpenCounter' = 0
    /\ g_gateCloseCounter' = 0
    /\ g_gateIsOpen' = FALSE
    /\ g_lastValidPitch' = NoPitch
    /\ call' = [NoCall EXCEPT !.op = "cleanup_pitch_detector"]
    /\ prevSignal' = FALSE
    /\ silRun' = 0
    /\ NoResult
    /\ UNCHANGED config

cleanup_pitch_detector ==
    /\ IF ~g_yinBuffer.isNull
       THEN /\ g_yinBuffer' = NullBuffer
            /\ g_yinBufferSize' = 0
       ELSE UNCHANGED <<g_yinBuffer, g_yinBufferSize>>
    /\ g_gateOpenCounter' = 0
    /\ g_gateCloseCounter' = 0
    /\ g_gateIsOpen' = FALSE
    /\ g_lastValidPitch' = NoPitch
    /\ g_currentMode' = MODE_CHROMATIC
    /\ g_minFrequency' = DEFAULT_MIN_FREQ
    /\ g_maxFrequency' = DEFAULT_MAX_FREQ
    /\ g_noiseThreshold' = NOISE_GATE_CHROMATIC
    /\ call' = [NoCall EXCEPT !.op = "cleanup_pitch_detector"]
    /\ prevSignal' = FALSE
    /\ silRun' = 0
    /\ NoResult

Next ==
    \/ \E mode \in Modes : set_tuning_mode(mode)
    \/ \E r \in Ranges : set_frequency_range(r[1], r[2])
    \/ reset_frequency_range
    \/ \E threshold \in Thresholds : set_noise_threshold(threshold)
    \/ \E in \in DetectInputs :
          \E mallocOk \in MallocOutcomes(in[1]) : DetectPitch(in[1], in[2], mallocOk)
    \/ \E in \in DetectInputs :
          \E mallocOk \in MallocOutcomes(in[1]) :
              DetectPitchWithConfidence(in[1], in[2], mallocOk)
    \/ cleanup_pitch_detector

Spec == Init /\ [][Next]_vars

\* The YIN stages on the frames of YinInputs, under each frequency range.
YinRanges == {<<20, 30>>, <<2000, 2800>>}

NextYin ==
    \/ \E r \in YinRanges : set_frequency_range(r[1], r[2])
    \/ reset_frequency_range
    \/ \E in \in YinInputs :
          \E mallocOk \in MallocOutcomes(in[1]) : DetectPitch(in[1], in[2], mallocOk)
    \/ \E in \in YinInputs :
          \E mallocOk \in MallocOutcomes(in[1]) :
              DetectPitchWithConfidence(in[1], in[2], mallocOk)
    \/ cleanup_pitch_detector

SpecYin == Init /\ [][NextYin]_vars

\* ---------------------------------------------------------------- properties
\* The predicates below take the call and the threshold as parameters, to be
\* applied to the state before or after a step.
Detect(c) == c.op \in {"detect_pitch", "detect_pitch_with_confidence"}
IsDetect == Detect(call)

\* the frame of the last call was accepted: not null and at least 64 samples
AcceptedFrameIds == {f \in FrameIds : ~Frames[f].isNull /\ Frames[f].length >= 64}

Accepted(c) == c.frame \in AcceptedFrameIds
AcceptedFrame == Accepted(call)

\* the frame of the last call is signal-present under the current threshold:
\* rms > noiseThreshold and peak > 2 * noiseThreshold
Signal(c, threshold) ==
    /\ RmsAbove(FrameRms[c.frame], threshold)
    /\ FramePeak[c.frame] > 2 * threshold
SignalFrame == Signal(call, g_noiseThreshold)

\* lo <= p <= hi for a fraction p
Within(p, lo, hi) == ~FLess(p, FInt(lo)) /\ ~FLess(FInt(hi), p)

\* C1: gate attack hysteresis.  A detect call on an accepted frame that finds
\* the gate closed leaves it open exactly when this frame and the accepted
\* frame before it are both signal-present, with no set_tuning_mode or cleanup
\* between them; so one signal-present frame between frames without signal
\* never opens the gate.
GateAttack ==
    [][(Detect(call') /\ Accepted(call') /\ ~g_gateIsOpen)
          => (g_gateIsOpen' <=> (Signal(call', g_noiseThreshold') /\ prevSignal))]_vars

GateAttackWitness ==
    /\ IsDetect /\ AcceptedFrame /\ SignalFrame
    /\ ~prevGateOpen /\ g_gateIsOpen

\* C2: gate release hysteresis.  A detect call on an accepted frame that finds
\* the gate open closes it exactly when the frame is the 5th accepted frame in
\* a row without signal; a signal-present frame restarts the count; and the
\* closing call sets g_lastValidPitch to -1.
GateRelease ==
    [][(Detect(call') /\ Accepted(call') /\ g_gateIsOpen)
          => /\ ~g_gateIsOpen' <=> (~Signal(call', g_noiseThreshold') /\ silRun' = 5)
             /\ Signal(call', g_noiseThreshold') => silRun' = 0
             /\ ~g_gateIsOpen' => g_lastValidPitch' = NoPitch]_vars

GateReleaseWitness ==
    /\ IsDetect /\ AcceptedFrame /\ ~SignalFrame
    /\ prevGateOpen /\ ~g_gateIsOpen /\ silRun = 5

\* C3: range validation.  A pitch returned by detect lies in
\* [g_minFrequency, g_maxFrequency]; a candidate of the threshold search whose
\* frequency is outside the range gives "no pitch" and leaves g_lastValidPitch
\* as it was.
RangeValidation ==
    [][Detect(call')
          => /\ ret' # NoPitch
                  => Within(ret', g_minFrequency', g_maxFrequency')
             /\ (local'.tau # -1
                  /\ ~Within(local'.pitchHz, g_minFrequency', g_maxFrequency'))
                  => (ret' = NoPitch /\ g_lastValidPitch' = g_lastValidPitch)]_vars

RangeValidationWitness ==
    /\ IsDetect /\ local.tau # -1
    /\ ~Within(local.pitchHz, g_minFrequency, g_maxFrequency)
    /\ ret = NoPitch
    /\ g_lastValidPitch # NoPitch

\* C4: gate short-circuit.  A detect call on an accepted frame that leaves the
\* gate closed returns "no pitch", runs no YIN stage, neither allocates nor
\* writes the scratch buffer and stores no pitch in g_lastValidPitch; so a call
\* that returns a pitch leaves is_gate_open() true.
GateShortCircuit ==
    [][Detect(call')
          => /\ (Accepted(call') /\ ~g_gateIsOpen')
                  => /\ ret' = NoPitch
                     /\ ~local'.yin
                     /\ local'.malloc = "none"
                     /\ scratch' = scratch
                     /\ g_lastValidPitch' \in {g_lastValidPitch, NoPitch}
             /\ ret' # NoPitch => g_gateIsOpen']_vars

GateShortCircuitWitness ==
    /\ IsDetect /\ AcceptedFrame /\ SignalFrame
    /\ ~g_gateIsOpen /\ ret = NoPitch /\ ~local.yin

\* C5: frame rejection.  detect on a null frame or on a frame shorter than 64
\* samples returns "no pitch" and changes nothing of the session: gate, counters,
\* last pitch, configuration, scratch buffer.
FrameRejection ==
    [][(Detect(call') /\ ~Accepted(call'))
          => (ret' = NoPitch /\ session' = session)]_vars

FrameRejectionWitness ==
    /\ IsDetect /\ ~AcceptedFrame /\ ret = NoPitch
    /\ g_gateIsOpen /\ g_gateCloseCounter = 4

\* C6: silent frames.  detect on an accepted all-zero frame returns "no pitch",
\* also with the gate open; and once 5 such calls were made in a row the gate
\* is closed, for as long as only such calls follow.
SilentFrames ==
    /\ (IsDetect /\ AcceptedFrame /\ IsSilent(call.frame)) => ret = NoPitch
    /\ zeroRun >= 5 => ~g_gateIsOpen

SilentFramesWitness ==
    /\ IsDetect /\ AcceptedFrame /\ IsSilent(call.frame)
    /\ zeroRun = 5 /\ prevGateOpen /\ ~g_gateIsOpen

\* C7: invalid configuration is a no-op.  set_frequency_range(min, max) without
\* 0 < min < max and set_noise_threshold(v) without 0 < v < 1 leave the range,
\* the threshold, the mode and the gate state as they were.
InvalidRange(c) ==
    /\ c.op = "set_frequency_range"
    /\ ~(0 < c.minFreq /\ c.minFreq < c.maxFreq)
InvalidRangeCall == InvalidRange(call)

InvalidThreshold(c) ==
    /\ c.op = "set_noise_threshold"
    /\ ~(0 < c.threshold /\ c.threshold < 1000)
InvalidThresholdCall == InvalidThreshold(call)

InvalidConfigNoOp ==
    [][(InvalidRange(call') \/ InvalidThreshold(call'))
          => (config' = config /\ gate' = gate)]_vars

InvalidConfigNoOpWitness ==
    /\ InvalidRangeCall
    /\ g_minFrequency = 2000 /\ g_maxFrequency = 2800
    /\ g_noiseThreshold = 500 /\ g_gateIsOpen

\* C8 as stated: cleanup_pitch_detector closes the gate, zeroes both counters,
\* clears the last pitch and the scratch buffer, and keeps mode, range and
\* threshold as they were before the call.
ResetKeepsConfig ==
    [][call'.op = "cleanup_pitch_detector"
          => /\ ~g_gateIsOpen'
             /\ g_gateOpenCounter' = 0 /\ g_gateCloseCounter' = 0
             /\ g_lastValidPitch' = NoPitch
             /\ g_yinBuffer'.isNull
             /\ config' = config]_vars

\* C8, amended: cleanup_pitch_detector closes the gate, zeroes both counters,
\* clears the last pitch, releases the scratch buffer, and puts mode, range and
\* threshold back to their defaults: Chromatic, 25 Hz, 4500 Hz, 0.008.
ResetRestoresDefaults ==
    call.op = "cleanup_pitch_detector"
        => /\ ~g_gateIsOpen
           /\ g_gateOpenCounter = 0 /\ g_gateCloseCounter = 0
           /\ g_lastValidPitch = NoPitch
           /\ g_yinBuffer.isNull
           /\ g_currentMode = 0
           /\ g_minFrequency = 25 /\ g_maxFrequency = 4500
           /\ g_noiseThreshold = 8

ResetRestoresDefaultsWitness ==
    /\ call.op = "cleanup_pitch_detector"
    /\ prevGateOpen
    /\ g_yinBuffer.isNull /\ g_currentMode = 0 /\ g_noiseThreshold = 8

\* C9: set_tuning_mode(mode) for Chromatic, Guitar or Piano sets the threshold
\* to 0.008, 0.010 or 0.006, closes the gate with both counters 0 and no last
\* pitch, and leaves the frequency range as it was.
SetModeEffect ==
    [][(call'.op = "set_tuning_mode" /\ call'.mode \in {0, 1, 2})
          => /\ g_noiseThreshold' =
                  (IF call'.mode = 0 THEN 8 ELSE IF call'.mode = 1 THEN 10 ELSE 6)
             /\ ~g_gateIsOpen'
             /\ g_gateOpenCounter' = 0 /\ g_gateCloseCounter' = 0
             /\ g_lastValidPitch' = NoPitch
             /\ g_minFrequency' = g_minFrequency
             /\ g_maxFrequency' = g_maxFrequency]_vars

SetModeEffectWitness ==
    /\ call.op = "set_tuning_mode" /\ call.mode = 2
    /\ prevGateOpen /\ ~g_gateIsOpen
    /\ g_noiseThreshold = 6
    /\ g_minFrequency = 2000 /\ g_maxFrequency = 2800

\* C10: configuration invariant.  In every reachable state
\* 0 < g_minFrequency < g_maxFrequency and 0 < g_noiseThreshold < 1.
ConfigInvariant ==
    /\ 0 < g_minFrequency /\ g_minFrequency < g_maxFrequency
    /\ 0 < g_noiseThreshold /\ g_noiseThreshold < 1000

ConfigInvariantWitness ==
    /\ InvalidThresholdCall
    /\ g_noiseThreshold = 500
    /\ g_minFrequency = 20 /\ g_maxFrequency = 30

\* C11: the mode is always one of the three enumerated values.  In every
\* reachable state, also after set_tuning_mode with an integer that is not 0, 1
\* or 2, g_currentMode is Chromatic (0), Guitar (1) or Piano (2).
ModeEnumerated == g_currentMode \in {MODE_CHROMATIC, MODE_GUITAR, MODE_PIANO}

\* H = length / 2 of the frame of call c
HalfLen(c) == Frames[c.frame].length \div 2

\* C12: allocation failure is absorbed and recoverable.  A detect call in which
\* malloc fails returns "no pitch", runs no YIN stage and leaves a null buffer;
\* and every detect call that passes the gate and in which malloc does not
\* fail, also right after a failure, ends with a buffer that is not null and
\* holds at least H = N/2 values, and runs the YIN stages.
AllocationFailure ==
    [][Detect(call')
          => /\ local'.malloc = "failed"
                  => /\ ret' = NoPitch
                     /\ ~local'.yin
                     /\ g_yinBuffer'.isNull
             /\ local'.yin => ~g_yinBuffer'.isNull
             /\ (local'.gateOpen /\ local'.malloc # "failed")
                  => /\ local'.yin
                     /\ ~g_yinBuffer'.isNull
                     /\ g_yinBufferSize' >= HalfLen(call')
                     /\ 0..(HalfLen(call') - 1) \subseteq DOMAIN g_yinBuffer'.mem]_vars

AllocationFailureWitness ==
    /\ IsDetect /\ prevMalloc = "failed"
    /\ local.malloc = "ok" /\ local.yin /\ ret # NoPitch

\* the frequency of the sine in the frame of call c: sampleRate / period
SineFrequency(c) == Frac(c.sampleRate, SinePeriod[c.frame])

\* p is within 0.5% of the frequency F
WithinHalfPercent(p, F) ==
    /\ ~FLess(p, FMul(F, Frac(199, 200)))
    /\ ~FLess(FMul(F, Frac(201, 200)), p)

\* C13: accuracy on a pure sine.  A detect call on a sine frame of frequency F
\* = sampleRate / period with N >= 4 * period samples and F inside
\* [g_minFrequency, g_maxFrequency], made with the gate open after its check
\* and the scratch buffer allocated, returns a pitch within 0.5% of F.
SineAccuracy ==
    (/\ IsDetect
     /\ call.frame \in DOMAIN SinePeriod
     /\ call.sampleRate > 0
     /\ Frames[call.frame].length >= 4 * SinePeriod[call.frame]
     /\ Within(SineFrequency(call), g_minFrequency, g_maxFrequency)
     /\ local.gateOpen
     /\ local.malloc # "failed")
        => /\ ret # NoPitch
           /\ WithinHalfPercent(ret, SineFrequency(call))

Max(a, b) == IF a < b THEN b ELSE a

\* a / b rounded to the nearest integer, for a >= 0 and b > 0
RoundDiv(a, b) == (2 * a + b) \div (2 * b)

\* the lags of [lo, hi) at which the curve of the frame of call c is below 0.10
BelowThreshold(c, lo, hi) ==
    {tau \in lo..(hi - 1) : FLess(FrameCurve[c.frame][tau], YIN_THRESHOLD)}

\* The search of the last call examined exactly the lags of [lo, hi): its
\* candidate, if any, is one of them; it has a candidate when one of them is
\* below the threshold; and it has none when lo >= hi.
SearchedWindow(lo, hi) ==
    /\ local.tau # -1 => (lo <= local.tau /\ local.tau < hi)
    /\ local.tau = -1 <=> BelowThreshold(call, lo, hi) = {}
    /\ lo >= hi => local.tau = -1

\* C14 as stated: the threshold search examines exactly the lags of
\* [minTau, maxTau) with minTau = max(2, round(sampleRate / g_maxFrequency)) and
\* maxTau = min(H - 1, round(sampleRate / g_minFrequency)), round to nearest.
LagWindowRounded ==
    (IsDetect /\ local.yin)
        => SearchedWindow(
               Max(2, RoundDiv(call.sampleRate, g_maxFrequency)),
               Min(HalfLen(call) - 1, RoundDiv(call.sampleRate, g_minFrequency)))

\* C14, amended: the threshold search examines exactly the lags of
\* [minTau, maxTau) with minTau = max(2, trunc(sampleRate / g_maxFrequency)) and
\* maxTau = min(H - 1, trunc(sampleRate / g_minFrequency)), the quotients cut
\* to their integer parts; it has no candidate when minTau >= maxTau.
LagWindow ==
    (IsDetect /\ local.yin)
        => SearchedWindow(
               Max(2, call.sampleRate \div g_maxFrequency),
               Min(HalfLen(call) - 1, call.sampleRate \div g_minFrequency))

\* a candidate at the lag that truncation lets in and rounding would leave out
LagWindowWitness ==
    /\ IsDetect /\ local.yin
    /\ local.tau = call.sampleRate \div g_maxFrequency
    /\ local.tau >= 2
    /\ local.tau < RoundDiv(call.sampleRate, g_maxFrequency)

\* The lag the first-dip policy lands on for the frame of call c: from the
\* smallest lag of [lo, hi) below the threshold, step forward while the next
\* curve value is strictly lower and the next lag is at most last; -1 when no
\* lag of [lo, hi) is below the threshold.
FirstDipLag(c, lo, hi, last) ==
    LET curve == FrameCurve[c.frame]
        below == BelowThreshold(c, lo, hi)
    IN  IF below = {} THEN -1
        ELSE LET first == CHOOSE t \in below : \A u \in below : t <= u
                 reach == {t \in first..Max(first, last) :
                              \A u \in first..(t - 1) : FLess(curve[u + 1], curve[u])}
             IN  CHOOSE t \in reach : \A u \in reach : u <= t

\* C15 as stated: the threshold search returns the lag reached from the
\* smallest tau of [minTau, maxTau) below 0.10 by walking forward while
\* curve[tau+1] < curve[tau], as far as the curve goes.
FirstDipUnbounded ==
    (IsDetect /\ local.yin)
        => local.tau = FirstDipLag(call,
                           Max(2, call.sampleRate \div g_maxFrequency),
                           Min(HalfLen(call) - 1, call.sampleRate \div g_minFrequency),
                           HalfLen(call) - 1)

\* C15, amended: the threshold search returns the lag reached from the
\* smallest tau of [minTau, maxTau) below 0.10 by walking forward while
\* tau + 1 < maxTau and curve[tau+1] < curve[tau], whatever the curve does at
\* larger lags, and it has no candidate exactly when no tau of the window is
\* below 0.10.
FirstDip ==
    (IsDetect /\ local.yin)
        => LET lo == Max(2, call.sampleRate \div g_maxFrequency)
               hi == Min(HalfLen(call) - 1, call.sampleRate \div g_minFrequency)
           IN  /\ local.tau = FirstDipLag(call, lo, hi, hi - 1)
               /\ local.tau = -1 <=> BelowThreshold(call, lo, hi) = {}

\* a candidate that is returned although the curve is strictly lower at a
\* larger lag of the window
FirstDipWitness ==
    /\ IsDetect /\ local.yin
    /\ local.tau # -1
    /\ \E t \in (local.tau + 1)..(Min(HalfLen(call) - 1, call.sampleRate \div g_minFrequency) - 1) :
           FLess(FrameCurve[call.frame][t], FrameCurve[call.frame][local.tau])

\* 1 - curve[tau] for the frame and the candidate of the last call
CandidateConfidence == FSub(FInt(1), FrameCurve[call.frame][local.tau])

\* C16 as stated: the confidence that detect_pitch_with_confidence hands to
\* its caller is 1 - curve[bestTau] whenever the threshold search found a
\* candidate, and 0 otherwise; it lies in [0, 1].
ReportedConfidenceOfCandidate ==
    call.op = "detect_pitch_with_confidence"
        => /\ outConfidence = IF local.tau # -1 THEN CandidateConfidence ELSE FInt(0)
           /\ Within(outConfidence, 0, 1)

\* C16, amended: the confidence that detect_pitch_with_confidence hands to
\* its caller is 1 - curve[bestTau] when the call returns a pitch, and 0 when
\* it returns no pitch, also when the threshold search found a candidate whose
\* pitch failed the range check; it lies in [0, 1].
ReportedConfidence ==
    call.op = "detect_pitch_with_confidence"
        => /\ ret # NoPitch => (local.tau # -1 /\ outConfidence = CandidateConfidence)
           /\ ret = NoPitch => outConfidence = FInt(0)
           /\ Within(outConfidence, 0, 1)

\* a call whose search found a candidate below the threshold and whose pitch
\* was then rejected by the range check
ReportedConfidenceWitness ==
    /\ call.op = "detect_pitch_with_confidence"
    /\ local.tau # -1
    /\ FLess(FInt(0), CandidateConfidence)
    /\ local.pitchHz # NoPitch
    /\ ret = NoPitch
    /\ outConfidence = FInt(0)

\* C17: the scratch buffer's capacity only grows.  Over every step other than
\* cleanup_pitch_detector the recorded capacity g_yinBufferSize does not
\* decrease; a detect call calls malloc only when its frame needs H = N / 2
\* above the recorded capacity; and when the YIN stages ran, the capacity is
\* at least H.
CapacityGrowthOnly ==
    [][call'.op # "cleanup_pitch_detector"
          => /\ g_yinBufferSize' >= g_yinBufferSize
             /\ local'.malloc # "none" => HalfLen(call') > g_yinBufferSize
             /\ local'.yin => g_yinBufferSize' >= HalfLen(call')]_vars

\* C18: in every reachable state where the gate is closed, g_lastValidPitch is
\* -1: a last pitch exists only while the gate is open.
ClosedGateNoLastPitch == ~g_gateIsOpen => g_lastValidPitch = NoPitch

\* a detect call that released the gate of a session holding a last pitch
ClosedGateNoLastPitchWitness ==
    /\ IsDetect
    /\ prevGateOpen /\ prevLastPitch # NoPitch
    /\ ~g_gateIsOpen /\ g_lastValidPitch = NoPitch

\* what the entry point other than op returns and leaves behind, from the
\* current state and for the same frame, sample rate and malloc outcome
OtherEntryPoint(op, f, sampleRate, mallocOk) ==
    IF op = "detect_pitch"
    THEN detect_pitch_with_confidence(f, sampleRate, mallocOk)
    ELSE detect_pitch(f, sampleRate, mallocOk)

\* the pitch returned and the session state left by a detect call with
\* outcome d: d without the confidence and the locals
SessionAfter(d) == [d EXCEPT !.conf = FInt(0), !.local = NoLocal]

\* C19: the two entry points are equivalent.  Every detect step returns the
\* pitch and leaves the gate flag, both counters, g_lastValidPitch and the
\* scratch buffer with its capacity that the other entry point would have
\* returned and left from the same state for the same frame and sample rate.
EntryPointsEquivalent ==
    [][\A f \in FrameIds : \A sampleRate \in SampleRates : \A mallocOk \in BOOLEAN :
           (/\ Detect(call')
            /\ f = call'.frame
            /\ sampleRate = call'.sampleRate
            /\ mallocOk = (local'.malloc # "failed"))
               => SessionAfter(OtherEntryPoint(call'.op, f, sampleRate, mallocOk))
                      = [ret |-> ret', conf |-> FInt(0),
                         open |-> g_gateOpenCounter', close |-> g_gateCloseCounter',
                         isOpen |-> g_gateIsOpen', last |-> g_lastValidPitch',
                         buffer |-> g_yinBuffer', size |-> g_yinBufferSize',
                         local |-> NoLocal]]_vars

\* a detect_pitch_with_confidence call that returned a pitch, recorded it as
\* the last pitch and wrote a confidence
EntryPointsEquivalentWitness ==
    /\ call.op = "detect_pitch_with_confidence"
    /\ ret # NoPitch
    /\ g_lastValidPitch = ret
    /\ outConfidence # FInt(0)

\* the indices at which yin_difference reads a frame with half length H:
\* buffer[i] and buffer[i + tau] for tau in [1, H) and i in [0, H)
FrameReads(H) ==
    {i + d : i \in 0..(H - 1), d \in 0..(H - 1)}

\* the indices at which the four stages access the scratch buffer: the memset
\* and the loops of stages 1 and 2 over [0, H), the scan and the walk of
\* stage 3 over [lo, hi), and the three reads of stage 4 around tau unless it
\* returns at its first check
ScratchAccesses(H, lo, hi, tau) ==
    (0..(H - 1)) \cup (lo..(hi - 1))
        \cup (IF tau < 1 \/ tau >= H - 1 THEN {} ELSE {tau - 1, tau, tau + 1})

\* C20: index and division safety.  In every detect call that reached the YIN
\* stages, every frame read is at an index below N, every scratch-buffer
\* access is at an index of [0, H) with H at most the capacity, a candidate
\* satisfies 2 <= bestTau <= H - 2, and the refined lag is at least 1, so that
\* pitchHz = sampleRate / refined lag divides by a non-zero number.
IndexSafety ==
    (IsDetect /\ local.yin)
        => LET N == Frames[call.frame].length
               H == HalfLen(call)
               lo == Max(2, call.sampleRate \div g_maxFrequency)
               hi == Min(H - 1, call.sampleRate \div g_minFrequency)
           IN  /\ N >= MIN_FRAME_LENGTH
               /\ \A k \in FrameReads(H) : 0 <= k /\ k < N
               /\ \A k \in ScratchAccesses(H, lo, hi, local.tau) : 0 <= k /\ k < H
               /\ H <= g_yinBufferSize
               /\ ~g_yinBuffer.isNull
               /\ (0..(H - 1)) \subseteq DOMAIN g_yinBuffer.mem
               /\ local.tau # -1
                    => /\ 2 <= local.tau /\ local.tau <= H - 2
                       /\ LET betterTau == yin_parabolic_interpolation(
                                               g_yinBuffer.mem, local.tau, N)
                          IN  /\ ~FLess(betterTau, FInt(1))
                              /\ local.pitchHz = FDiv(FInt(call.sampleRate), betterTau)

\* a frame of odd length whose candidate is the largest lag allowed, H - 2
IndexSafetyWitness ==
    /\ IsDetect /\ local.yin
    /\ Frames[call.frame].length % 2 = 1
    /\ local.tau = HalfLen(call) - 2
    /\ ret # NoPitch

=============================================================================
